---- MODULE Spec2Model ----
(***************************************************************************)
(* Model of the BFV fixture-list parser of the Platzbelegung tool          *)
(* (src/src/App copy.tsx): text normalisation, line classifier, row        *)
(* tokenizer, home/away splitter, field suggester, record assembler, and   *)
(* the App state that holds the parsed list.                               *)
(*                                                                         *)
(* JavaScript strings are modelled as TLA+ strings; a character is read    *)
(* with SubSeq(s, i, i).  The indices of CharAt, Slice, IndexOf and        *)
(* LastIndexOf are 0-based as in JavaScript, those of SubSeq 1-based.      *)
(***************************************************************************)
EXTENDS Integers, Sequences, FiniteSets, TLC

VARIABLES
  file,               \* App state: the chosen PDF, given by the text it holds
  rawText,            \* App state: the textarea's content
  homeOnly,           \* App state: the "Nur Heimspiele anzeigen" checkbox
  games,              \* App state: the list set by setGames
  OUR_TEAM_PREFIXES,  \* module-level array, sorted in place by detectHomeAndSplit
  extracting,         \* the handleParse calls that wait for extractPdfText
  parseLog,           \* history: one entry per completed parseBFVText call
  pairing,            \* argument of a direct detectHomeAndSplit call
  split,              \* history: the last direct detectHomeAndSplit call
  venueText,          \* argument of a direct suggestFieldFromVenue call
  suggested,          \* history: the last direct suggestFieldFromVenue call
  scan                \* the scanning loop of one parseBFVText call, step by step

vars ==
  <<file, rawText, homeOnly, games, OUR_TEAM_PREFIXES, extracting, parseLog, pairing, split, venueText,
    suggested, scan>>

-----------------------------------------------------------------------------
(* Bounds of the explored inputs *)

MaxLines == 3
MaxPieces == 3
MaxParses == 2

-----------------------------------------------------------------------------
(* Evaluation helpers *)

\* F applied to the value of e, with e evaluated once
With(e, F(_)) == CHOOSE r \in {F(v) : v \in {e}} : TRUE

Min(S) == CHOOSE x \in S : \A y \in S : x <= y
Max(S) == CHOOSE x \in S : \A y \in S : x >= y

Range(f) == {f[i] : i \in DOMAIN f}

-----------------------------------------------------------------------------
(* Characters *)

\* U+00A0, the non-breaking space
NBSP == " "

\* The characters matched by \s and removed by trim() that the inputs use
WhiteSpace == {" ", "\t", "\n", "\r", NBSP}

Digits == {"0", "1", "2", "3", "4", "5", "6", "7", "8", "9"}

\* [A-ZÄÖÜ]
UpperLetters ==
  {"A", "B", "C", "D", "E", "F", "G", "H", "I", "J", "K", "L", "M", "N", "O",
   "P", "Q", "R", "S", "T", "U", "V", "W", "X", "Y", "Z", "Ä", "Ö", "Ü"}

\* [a-zäöüß]
LowerLetters ==
  {"a", "b", "c", "d", "e", "f", "g", "h", "i", "j", "k", "l", "m", "n", "o",
   "p", "q", "r", "s", "t", "u", "v", "w", "x", "y", "z", "ä", "ö", "ü", "ß"}

-----------------------------------------------------------------------------
(* String.prototype helpers *)

\* s.charAt(i), i 0-based; "" outside the string
CharAt(s, i) == IF i >= 0 /\ i < Len(s) THEN SubSeq(s, i + 1, i + 1) ELSE ""

\* s.slice(a, b) for 0 <= a, b clamped to the length
Slice(s, a, b) == SubSeq(s, a + 1, IF b > Len(s) THEN Len(s) ELSE b)

\* s.slice(a)
SliceFrom(s, a) == SubSeq(s, a + 1, Len(s))

startsWith(s, p) == Len(p) <= Len(s) /\ SubSeq(s, 1, Len(p)) = p

endsWith(s, p) == Len(p) <= Len(s) /\ SubSeq(s, Len(s) - Len(p) + 1, Len(s)) = p

\* The 0-based positions at which p occurs in s
Occurrences(s, p) == {i \in 0..(Len(s) - Len(p)) : SubSeq(s, i + 1, i + Len(p)) = p}

\* s.indexOf(p)
IndexOf(s, p) == With(Occurrences(s, p), LAMBDA occ : IF occ = {} THEN -1 ELSE Min(occ))

\* s.lastIndexOf(p)
LastIndexOf(s, p) == With(Occurrences(s, p), LAMBDA occ : IF occ = {} THEN -1 ELSE Max(occ))

\* s.includes(p)
includes(s, p) == \E i \in 0..(Len(s) - Len(p)) : SubSeq(s, i + 1, i + Len(p)) = p

\* s.trim()
trim(s) ==
  LET first[i \in 1..(Len(s) + 1)] ==
        IF i <= Len(s) /\ SubSeq(s, i, i) \in WhiteSpace THEN first[i + 1] ELSE i
      last[j \in 0..Len(s)] ==
        IF j >= 1 /\ SubSeq(s, j, j) \in WhiteSpace THEN last[j - 1] ELSE j
  IN SubSeq(s, first[1], last[Len(s)])

\* s.replace(/\u00A0/g, " ")
RECURSIVE replaceNbsp(_)
replaceNbsp(s) ==
  With(IndexOf(s, NBSP), LAMBDA i :
    IF i = -1 THEN s
    ELSE With(SliceFrom(s, i + 1), LAMBDA rest : Slice(s, 0, i) \o " " \o replaceNbsp(rest)))

\* The 1-based index of the first character of s from i on that is no whitespace
firstNonSpace(s, i) ==
  LET skip[k \in i..(Len(s) + 1)] ==
        IF k <= Len(s) /\ SubSeq(s, k, k) \in WhiteSpace THEN skip[k + 1] ELSE k
  IN skip[i]

\* s.replace(/\s+/g, " "): every maximal run of whitespace becomes one space
RECURSIVE collapseWhitespace(_)
collapseWhitespace(s) ==
  With({i \in 1..Len(s) :
          /\ SubSeq(s, i, i) \in WhiteSpace
          /\ SubSeq(s, i, i) # " " \/ CharAt(s, i) \in WhiteSpace},
       LAMBDA runs :
         IF runs = {} THEN s
         ELSE With(SubSeq(s, firstNonSpace(s, Min(runs)), Len(s)), LAMBDA rest :
                SubSeq(s, 1, Min(runs) - 1) \o " " \o collapseWhitespace(rest)))

normalizeSpaces(s) ==
  With(replaceNbsp(s), LAMBDA a : With(collapseWhitespace(a), LAMBDA b : trim(b)))

-----------------------------------------------------------------------------
(* Domain configuration *)

\* OUR_TEAM_PREFIXES as declared
DeclaredPrefixes ==
  << "(SG) TSV Lonnerstadt II/ASV Weisendorf",
     "TSV Lonnerstadt 2 (7er)",
     "TSV Lonnerstadt AH",
     "TSV Lonnerstadt 3",
     "TSV Lonnerstadt 2",
     "TSV Lonnerstadt/ ASV Weisendorf",
     "(SG) TSV Lonnerstadt II",
     "(SG) TSV Lonnerstadt",
     "TSV Lonnerstadt" >>

-----------------------------------------------------------------------------
(* Home/away splitter *)

\* Faulty variant of insertByLength: x goes in front of the elements of its
\* own length, so that a sort reverses the ties each time it runs
insertByLengthBeforeTies(acc, x) ==
  With(Cardinality({k \in 1..Len(acc) : Len(acc[k]) > Len(x)}), LAMBDA c :
    SubSeq(acc, 1, c) \o <<x>> \o SubSeq(acc, c + 1, Len(acc)))

\* x put into acc, a list kept longest first, behind the elements that are
\* at least as long
insertByLength(acc, x) ==
  With(Cardinality({k \in 1..Len(acc) : Len(acc[k]) >= Len(x)}), LAMBDA c :
    SubSeq(acc, 1, c) \o <<x>> \o SubSeq(acc, c + 1, Len(acc)))

\* Faulty variant of sortByLengthDesc: shortest first
sortByLengthAsc(list) ==
  LET sorted[n \in 0..Len(list)] ==
        IF n = 0 THEN <<>>
        ELSE With(sorted[n - 1], LAMBDA acc :
               With(Cardinality({k \in 1..Len(acc) : Len(acc[k]) <= Len(list[n])}), LAMBDA c :
                 SubSeq(acc, 1, c) \o <<list[n]>> \o SubSeq(acc, c + 1, Len(acc))))
  IN sorted[Len(list)]

\* Array.prototype.sort with (a, b) => b.length - a.length: a stable sort,
\* longest first; elements of equal length keep their relative order.
sortByLengthDesc(list) ==
  LET sorted[n \in 0..Len(list)] ==
        IF n = 0 THEN <<>>
        ELSE With(sorted[n - 1], LAMBDA acc : insertByLength(acc, list[n]))
  IN sorted[Len(list)]

\* Faulty variant of leftMatches: no space is asked for behind the prefix
leftMatchesLoose(text, prefix) == startsWith(text, prefix)

\* text.startsWith(prefix + " ") || text === prefix
leftMatches(text, prefix) == startsWith(text, prefix \o " ") \/ text = prefix

\* Faulty variant of rightMatches: an embedded occurrence does not count
rightMatchesAtEnd(text, p) == endsWith(text, " " \o p) \/ text = p

\* text.endsWith(" " + p) || text === p || text.includes(" " + p)
rightMatches(text, p) == endsWith(text, " " \o p) \/ text = p \/ includes(text, " " \o p)

\* The first index of list whose element satisfies P, 0 when there is none
FirstIndex(list, P(_)) ==
  With({i \in 1..Len(list) : P(list[i])}, LAMBDA hits : IF hits = {} THEN 0 ELSE Min(hits))

\* The 0-based positions of text that hold a space followed by [A-ZÄÖÜ(]
capitalBreaks(text) ==
  {k \in 0..(Len(text) - 2) :
     CharAt(text, k) = " " /\ CharAt(text, k + 1) \in UpperLetters \cup {"("}}

\* The two heuristics and the final fallback, tried when no prefix matches
splitWithoutPrefix(text) ==
  With(IndexOf(text, "  "), LAMBDA twoSpace :
    IF twoSpace > -1
    THEN [homeTeam |-> trim(Slice(text, 0, twoSpace)),
          awayTeam |-> trim(SliceFrom(text, twoSpace)),
          isHome |-> FALSE]
    ELSE With(capitalBreaks(text), LAMBDA breaks :
           IF breaks # {}
           \* text.match(/^(.*?)(?= [A-ZÄÖÜ(])/): the lazy group ends at the first break
           THEN [homeTeam |-> trim(Slice(text, 0, Min(breaks))),
                 awayTeam |-> trim(SliceFrom(text, Min(breaks))),
                 isHome |-> FALSE]
           ELSE [homeTeam |-> text, awayTeam |-> "", isHome |-> FALSE]))

\* The right/embedded phase and what follows it, with the list as sorted
splitRight(text, sorted) ==
  With(FirstIndex(sorted, LAMBDA x : rightMatches(text, x)), LAMBDA ri :
    IF ri # 0
    THEN [homeTeam |-> trim(Slice(text, 0, LastIndexOf(text, sorted[ri]))),
          awayTeam |-> sorted[ri],
          isHome |-> FALSE]
    ELSE splitWithoutPrefix(text))

\* The left phase and what follows it, with the list as sorted
splitLeft(text, sorted) ==
  With(FirstIndex(sorted, LAMBDA x : leftMatches(text, x)), LAMBDA li :
    IF li # 0
    THEN [homeTeam |-> sorted[li],
          awayTeam |-> trim(SliceFrom(text, Len(sorted[li]))),
          isHome |-> TRUE]
    ELSE splitRight(text, sorted))

\* detectHomeAndSplit(pairing), reading the module-level list in the order `list`
detectHomeAndSplit(p, list) ==
  With(normalizeSpaces(p), LAMBDA text :
    With(sortByLengthDesc(list), LAMBDA sorted : splitLeft(text, sorted)))

\* Faulty variant of prefixesAfterCall: the call sorts a copy and leaves the
\* module-level list as it is
prefixesLeftUnsorted(list) == list

\* The module-level list after a call of detectHomeAndSplit
prefixesAfterCall(list) == sortByLengthDesc(list)

-----------------------------------------------------------------------------
(* Case mapping *)

\* The letters with two cases that the inputs use
UpperAlphabet == "ABCDEFGHIJKLMNOPQRSTUVWXYZÄÖÜ"
LowerAlphabet == "abcdefghijklmnopqrstuvwxyzäöü"

\* The character c, replaced by its counterpart in `to` when it occurs in `from`
mapChar(c, from, to) ==
  With(IndexOf(from, c), LAMBDA k : IF k = -1 THEN c ELSE CharAt(to, k))

\* The characters of s that occur in `from` replaced by those of `to`
RECURSIVE mapCase(_, _, _)
mapCase(s, from, to) ==
  IF Len(s) = 0 THEN ""
  ELSE IF Len(s) = 1 THEN mapChar(s, from, to)
  ELSE With(SubSeq(s, 1, Len(s) \div 2), LAMBDA left :
         With(SubSeq(s, Len(s) \div 2 + 1, Len(s)), LAMBDA right :
           mapCase(left, from, to) \o mapCase(right, from, to)))

toLowerCase(s) == mapCase(s, UpperAlphabet, LowerAlphabet)
toUpperCase(s) == mapCase(s, LowerAlphabet, UpperAlphabet)

-----------------------------------------------------------------------------
(* Numbers and dates *)

\* Number(s) for a string of decimal digits
Number(s) ==
  LET value[n \in 0..Len(s)] ==
        IF n = 0 THEN 0 ELSE 10 * value[n - 1] + IndexOf("0123456789", SubSeq(s, n, n))
  IN value[Len(s)]

\* String(n) for n >= 0
RECURSIVE String(_)
String(n) == IF n < 10 THEN CharAt("0123456789", n)
             ELSE String(n \div 10) \o CharAt("0123456789", n % 10)

\* str.padStart(w, "0")
RECURSIVE padStart(_, _)
padStart(str, w) == IF Len(str) >= w THEN str ELSE padStart("0" \o str, w)

IsLeapYear(y) == (y % 4 = 0 /\ y % 100 # 0) \/ y % 400 = 0

\* Days of month m0 (0 = January) of year y
DaysInMonth(y, m0) ==
  IF m0 = 1 THEN (IF IsLeapYear(y) THEN 29 ELSE 28)
  ELSE IF m0 \in {3, 5, 8, 10} THEN 30 ELSE 31

\* new Date(y, m0, d) for an in-range month: a day outside the month rolls
\* into the neighbouring months
RECURSIVE RollDays(_, _, _)
RollDays(y, m0, d) ==
  IF d < 1
  THEN LET py == IF m0 = 0 THEN y - 1 ELSE y
           pm == IF m0 = 0 THEN 11 ELSE m0 - 1
       IN RollDays(py, pm, d + DaysInMonth(py, pm))
  ELSE IF d > DaysInMonth(y, m0)
       THEN RollDays(IF m0 = 11 THEN y + 1 ELSE y, (m0 + 1) % 12, d - DaysInMonth(y, m0))
       ELSE <<y, m0, d>>

\* new Date(y, m0, d): a month outside 0..11 rolls into the neighbouring years
NewDate(y, m0, d) == RollDays(y + (m0 \div 12), m0 % 12, d)

\* toISODate(dmy) for dmy of the shape DD.MM.YYYY with YYYY >= 1000: the
\* string `${y}-${mm}-${dd}` is read by dayjs as new Date(y, mm - 1, dd) and
\* written back with format("YYYY-MM-DD")
toISODate(dmy) ==
  With(NewDate(Number(SubSeq(dmy, 7, 10)), Number(SubSeq(dmy, 4, 5)) - 1, Number(SubSeq(dmy, 1, 2))),
       LAMBDA date :
         padStart(String(date[1]), 4) \o "-" \o padStart(String(date[2] + 1), 2)
         \o "-" \o padStart(String(date[3]), 2))

-----------------------------------------------------------------------------
(* Record assembler *)

\* null as a field value
NoField == "null"

\* mapRawToGame returns <<>> for null and <<g>> for a GameItem g
NoGame == <<>>

\* Faulty variant of makeId: the pairing is not cut at 60 characters
makeIdWholePairing(gr) ==
  With(normalizeSpaces(gr.pairing), LAMBDA p : gr.date \o "_" \o gr.time \o "_" \o p)

makeId(gr) ==
  With(normalizeSpaces(gr.pairing), LAMBDA p : gr.date \o "_" \o gr.time \o "_" \o Slice(p, 0, 60))

\* Faulty variant of suggestFieldFromVenue: the home-ground rule comes first
suggestFieldHomeGroundFirst(venue) ==
  With(toLowerCase(venue), LAMBDA v :
    IF includes(v, "am sonnenhügel")
    THEN (IF includes(v, "platz 1") THEN "A"
          ELSE IF includes(v, "platz 2") THEN "B"
          ELSE IF includes(v, "platz 3") THEN "C"
          ELSE "A")
    ELSE IF includes(v, "frimmersdorf") THEN "Frimmersdorf"
    ELSE IF includes(v, "vestenbergsgreuth") THEN "Vestenbergsgreuth"
    ELSE IF includes(v, "weisendorf") /\ includes(v, "kunstrasen")
         THEN "ASV Weisendorf Kunstrasen"
    ELSE NoField)

suggestFieldFromVenue(venue) ==
  With(toLowerCase(venue), LAMBDA v :
    IF includes(v, "frimmersdorf") THEN "Frimmersdorf"
    ELSE IF includes(v, "vestenbergsgreuth") THEN "Vestenbergsgreuth"
    ELSE IF includes(v, "weisendorf") /\ includes(v, "kunstrasen")
         THEN "ASV Weisendorf Kunstrasen"
    ELSE IF includes(v, "am sonnenhügel")
         THEN (IF includes(v, "platz 1") THEN "A"
               ELSE IF includes(v, "platz 2") THEN "B"
               ELSE IF includes(v, "platz 3") THEN "C"
               ELSE "A")
    ELSE NoField)

\* Faulty variant of suggestedFieldFor: the venue decides for away fixtures too
suggestedFieldAnySide(isHome, venue) == suggestFieldFromVenue(venue)

\* isHome ? suggestFieldFromVenue(gr.venue) : null
suggestedFieldFor(isHome, venue) == IF isHome THEN suggestFieldFromVenue(venue) ELSE NoField

\* Faulty variant of isSpielfrei: nothing is filtered
neverSpielfrei(time) == FALSE

\* gr.time.toUpperCase() === "SPIELFREI"
isSpielfrei(time) == toUpperCase(time) = "SPIELFREI"

\* Faulty variant of gameItem: no field is assigned
gameItemUnassigned(gr, hs, iso, suggestedField) ==
  [id |-> makeId(gr),
   date |-> iso,
   time |-> gr.time,
   dt |-> iso \o "T" \o (IF Len(gr.time) = 4 THEN "0" \o gr.time ELSE gr.time) \o ":00",
   section |-> gr.section,
   competition |-> trim(gr.spieltyp \o " " \o gr.spielklasse),
   homeTeam |-> hs.homeTeam,
   awayTeam |-> hs.awayTeam,
   isHome |-> hs.isHome,
   venue |-> gr.venue,
   suggestedField |-> suggestedField,
   assignedField |-> NoField]

\* The GameItem of a row that is not filtered out
gameItem(gr, hs, iso, suggestedField) ==
  [id |-> makeId(gr),
   date |-> iso,
   time |-> gr.time,
   dt |-> iso \o "T" \o (IF Len(gr.time) = 4 THEN "0" \o gr.time ELSE gr.time) \o ":00",
   section |-> gr.section,
   competition |-> trim(gr.spieltyp \o " " \o gr.spielklasse),
   homeTeam |-> hs.homeTeam,
   awayTeam |-> hs.awayTeam,
   isHome |-> hs.isHome,
   venue |-> gr.venue,
   suggestedField |-> suggestedField,
   assignedField |-> suggestedField]

\* mapRawToGame(gr), with the module-level list in the order `list`
mapRawToGame(gr, list) ==
  IF isSpielfrei(gr.time) THEN NoGame
  ELSE With(detectHomeAndSplit(gr.pairing, list), LAMBDA hs :
         With(toISODate(gr.date), LAMBDA iso :
           With(suggestedFieldFor(hs.isHome, gr.venue), LAMBDA suggestedField :
             << gameItem(gr, hs, iso, suggestedField) >>)))

-----------------------------------------------------------------------------
(* Text normaliser and line classifier *)

\* txt.split(/\r?\n/)
splitLines(txt) ==
  With({i \in 1..Len(txt) : SubSeq(txt, i, i) = "\n"}, LAMBDA nl :
    LET n == Cardinality(nl)
        \* the k-th line break, 0 before the first and Len + 1 after the last
        brk(k) == IF k = 0 THEN 0
                  ELSE IF k > n THEN Len(txt) + 1
                  ELSE CHOOSE i \in nl : Cardinality({j \in nl : j < i}) = k - 1
        piece(from, to, last) ==
          IF ~last /\ to >= from /\ SubSeq(txt, to, to) = "\r"
          THEN SubSeq(txt, from, to - 1)
          ELSE SubSeq(txt, from, to)
    IN [k \in 1..(n + 1) |->
          With(brk(k - 1) + 1, LAMBDA from :
            With(brk(k) - 1, LAMBDA to : piece(from, to, k > n)))])

\* l.replace(/\u00A0/g, " ").trim()
normalizeLine(l) == With(replaceNbsp(l), LAMBDA a : trim(a))

\* The lines parseBFVText works on
normalizedLines(txt) ==
  With(splitLines(txt), LAMBDA ls :
    SelectSeq([k \in DOMAIN ls |-> normalizeLine(ls[k])], LAMBDA l : Len(l) > 0))

\* Faulty variant of isRowStart: any label of two characters starts a row
isRowStartAnyLabel(l) == Len(l) > 2 /\ CharAt(l, 2) \in WhiteSpace

\* /^(FS|ME|PO)\s+/.test(l)
isRowStart(l) == SubSeq(l, 1, 2) \in {"FS", "ME", "PO"} /\ CharAt(l, 2) \in WhiteSpace

SectionNames ==
  {"Herren Ü32", "Herren", "Herren-Reserve", "A-Junioren", "B-Junioren", "C-Junioren",
   "D-Junioren", "E-Junioren", "Frauen", "C-Juniorinnen", "E-Juniorinnen"}

isHeaderSection(l) == collapseWhitespace(l) \in SectionNames

\* /^Seite \d+ von/.test(l)
isPageLine(l) ==
  /\ startsWith(l, "Seite ")
  /\ \E k \in 7..Len(l) :
       /\ \A i \in 7..k : SubSeq(l, i, i) \in Digits
       /\ SubSeq(l, k + 1, k + 4) = " von"

\* The skip-list of the venue loop
isBoilerplate(l) ==
  \/ startsWith(l, "Bayerischer Fußball-Verband")
  \/ startsWith(l, "Ergebnisse online")
  \/ startsWith(l, "Kursiv dargestellte Spiele")
  \/ startsWith(l, "https://")
  \/ startsWith(l, "Zeit:")
  \/ isPageLine(l)
  \/ l = "TSV Lonnerstadt"
  \/ l = "Alle Vereinsspiele in der Übersicht"

\* l.match(/^[A-ZÄÖÜ][A-Za-zÄÖÜäöüß\- ]+$/)
isTitleShaped(l) ==
  /\ Len(l) >= 2
  /\ CharAt(l, 0) \in UpperLetters
  /\ \A i \in 2..Len(l) : SubSeq(l, i, i) \in UpperLetters \cup LowerLetters \cup {"-", " "}

-----------------------------------------------------------------------------
(* Row tokenizer *)

\* \d{2}\.\d{2}\.\d{4}
isDate(s) ==
  /\ Len(s) = 10
  /\ \A i \in {1, 2, 4, 5, 7, 8, 9, 10} : SubSeq(s, i, i) \in Digits
  /\ SubSeq(s, 3, 3) = "." /\ SubSeq(s, 6, 6) = "."

\* \d{2}:\d{2}
isTime(s) ==
  /\ Len(s) = 5
  /\ \A i \in {1, 2, 4, 5} : SubSeq(s, i, i) \in Digits
  /\ SubSeq(s, 3, 3) = ":"

\* \s(\d{2}\.\d{2}\.\d{4})\s at 0-based position k of s
dateAt(s, k) ==
  /\ CharAt(s, k) \in WhiteSpace
  /\ CharAt(s, k + 11) \in WhiteSpace
  /\ isDate(Slice(s, k + 1, k + 11))

\* (\d{2}:\d{2})\s at 0-based position k of s
timeAt(s, k) == isTime(Slice(s, k, k + 5)) /\ CharAt(s, k + 5) \in WhiteSpace

\* The lengths the lazy first group of dateTimeMatch can take
dateTimeStarts(rest) ==
  {k \in 0..Len(rest) :
     /\ dateAt(rest, k)
     /\ \/ timeAt(rest, k + 12)
        \/ Slice(rest, k + 12, k + 21) = "SPIELFREI" /\ CharAt(rest, k + 21) \in WhiteSpace}

\* The lengths the lazy first group of dateOnlyMatch can take
dateOnlyStarts(rest) == {k \in 0..Len(rest) : dateAt(rest, k)}

NoRow == [ok |-> FALSE]

\* The assignments of the dateTimeMatch branch, the first group being k long
dateTimeFields(rest, k) ==
  [ok |-> TRUE,
   spielklasse |-> trim(Slice(rest, 0, k)),
   date |-> Slice(rest, k + 1, k + 11),
   time |-> IF timeAt(rest, k + 12) THEN Slice(rest, k + 12, k + 17) ELSE "SPIELFREI",
   pairing |-> trim(SliceFrom(rest, IF timeAt(rest, k + 12) THEN k + 18 ELSE k + 22))]

\* rest.match(/^(.*?)\s(\d{2}\.\d{2}\.\d{4})\s((?:\d{2}:\d{2})|SPIELFREI)\s(.*)$/)
dateTimeMatch(rest) ==
  With(dateTimeStarts(rest), LAMBDA starts :
    IF starts = {} THEN NoRow ELSE dateTimeFields(rest, Min(starts)))

\* s without its leading whitespace
skipWhitespace(s) == SubSeq(s, firstNonSpace(s, 1), Len(s))

\* The assignments of the dateOnlyMatch branch, the first group being k long
\* and tail the trimmed third group
dateOnlyFields(rest, k, tail) ==
  [ok |-> TRUE,
   spielklasse |-> trim(Slice(rest, 0, k)),
   date |-> Slice(rest, k + 1, k + 11),
   time |-> IF timeAt(tail, 0) THEN Slice(tail, 0, 5)
            ELSE IF startsWith(tail, "SPIELFREI") THEN "SPIELFREI"
            ELSE "",
   pairing |-> IF timeAt(tail, 0) THEN SliceFrom(tail, 6)
               \* tail.replace(/^SPIELFREI\s*/, "")
               ELSE IF startsWith(tail, "SPIELFREI") THEN skipWhitespace(SliceFrom(tail, 9))
               ELSE tail]

\* rest.match(/^(.*?)\s(\d{2}\.\d{2}\.\d{4})\s(.*)$/), tried when dateTimeMatch fails
dateOnlyMatch(rest) ==
  With(dateOnlyStarts(rest), LAMBDA starts :
    IF starts = {} THEN NoRow
    ELSE With(trim(SliceFrom(rest, Min(starts) + 12)), LAMBDA tail :
           dateOnlyFields(rest, Min(starts), tail)))

\* The fields read from a row-start line: the date/time pattern, then the
\* date-only fallback; NoRow when the line is skipped
tokenizeRow(line) ==
  With(skipWhitespace(SliceFrom(line, 2)), LAMBDA rest :
    With(dateTimeMatch(rest), LAMBDA m : IF m.ok THEN m ELSE dateOnlyMatch(rest)))

\* Faulty variant of venueFrom: a boilerplate line ends the venue
RECURSIVE venueUpToBoilerplate(_, _, _)
venueUpToBoilerplate(lines, j, venue) ==
  IF j > Len(lines) \/ isRowStart(lines[j]) \/ isHeaderSection(lines[j]) \/ isBoilerplate(lines[j])
  THEN [venue |-> venue, next |-> j]
  ELSE With(venue \o (IF venue # "" THEN " " ELSE "") \o lines[j], LAMBDA longer :
         venueUpToBoilerplate(lines, j + 1, longer))

\* Faulty variant of venueFrom: a row-start line that gives no row does not
\* end the venue
RECURSIVE venueThroughMalformedRows(_, _, _)
venueThroughMalformedRows(lines, j, venue) ==
  IF j > Len(lines) \/ (isRowStart(lines[j]) /\ tokenizeRow(lines[j]).ok) \/ isHeaderSection(lines[j])
  THEN [venue |-> venue, next |-> j]
  ELSE IF isBoilerplate(lines[j]) THEN venueThroughMalformedRows(lines, j + 1, venue)
       ELSE With(venue \o (IF venue # "" THEN " " ELSE "") \o lines[j], LAMBDA longer :
              venueThroughMalformedRows(lines, j + 1, longer))

\* The venue loop from line j (1-based): the venue text and the index after it
RECURSIVE venueFrom(_, _, _)
venueFrom(lines, j, venue) ==
  IF j > Len(lines) \/ isRowStart(lines[j]) \/ isHeaderSection(lines[j])
  THEN [venue |-> venue, next |-> j]
  ELSE IF isBoilerplate(lines[j]) THEN venueFrom(lines, j + 1, venue)
       ELSE IF isTitleShaped(lines[j]) /\ isHeaderSection(lines[j])
            THEN [venue |-> venue, next |-> j]
            ELSE With(venue \o (IF venue # "" THEN " " ELSE "") \o lines[j], LAMBDA longer :
                   venueFrom(lines, j + 1, longer))

\* Faulty variant of gameRaw: the section is left empty
gameRawWithoutSection(lines, i, row, venue, currentSection) ==
  [lineIdx |-> i - 1,
   spieltyp |-> SubSeq(lines[i], 1, 2),
   spielklasse |-> row.spielklasse,
   date |-> row.date,
   time |-> row.time,
   pairing |-> row.pairing,
   venue |-> trim(venue),
   section |-> ""]

\* The GameRaw pushed for the row at line i (1-based)
gameRaw(lines, i, row, venue, currentSection) ==
  [lineIdx |-> i - 1,
   spieltyp |-> SubSeq(lines[i], 1, 2),
   spielklasse |-> row.spielklasse,
   date |-> row.date,
   time |-> row.time,
   pairing |-> row.pairing,
   venue |-> trim(venue),
   section |-> currentSection]

\* The scanning loop of parseBFVText from line i (1-based): the GameRaw list
RECURSIVE scanFrom(_, _, _, _)
scanFrom(lines, i, currentSection, raws) ==
  IF i > Len(lines) THEN raws
  ELSE IF isHeaderSection(lines[i]) THEN scanFrom(lines, i + 1, lines[i], raws)
  ELSE IF ~isRowStart(lines[i]) THEN scanFrom(lines, i + 1, currentSection, raws)
  ELSE With(tokenizeRow(lines[i]), LAMBDA row :
         IF ~row.ok THEN scanFrom(lines, i + 1, currentSection, raws)
         ELSE With(venueFrom(lines, i + 1, ""), LAMBDA v :
                With(Append(raws, gameRaw(lines, i, row, v.venue, currentSection)), LAMBDA pushed :
                  scanFrom(lines, v.next, currentSection, pushed))))

-----------------------------------------------------------------------------
(* Sorting by dt *)

\* The collation rank of a character of a dt string under localeCompare:
\* punctuation sorts before digits, digits before letters
collationRank(c) ==
  IF c = "-" THEN 1
  ELSE IF c = ":" THEN 2
  ELSE IF c \in Digits THEN 10 + IndexOf("0123456789", c)
  ELSE 20

\* a.localeCompare(b) on dt strings: negative, 0 or positive
localeCompare(a, b) ==
  With({i \in 1..Min({Len(a), Len(b)}) :
          collationRank(SubSeq(a, i, i)) # collationRank(SubSeq(b, i, i))},
       LAMBDA differ :
         IF differ = {} THEN Len(a) - Len(b)
         ELSE collationRank(SubSeq(a, Min(differ), Min(differ)))
              - collationRank(SubSeq(b, Min(differ), Min(differ))))

\* Faulty variant of insertByDt: g is put in front of the elements that
\* compare equal
insertByDtBeforeTies(acc, g) ==
  With(Cardinality({k \in 1..Len(acc) : localeCompare(acc[k].dt, g.dt) < 0}), LAMBDA c :
    SubSeq(acc, 1, c) \o <<g>> \o SubSeq(acc, c + 1, Len(acc)))

\* g put into acc, a list kept in dt order, behind the elements that do not
\* compare greater
insertByDt(acc, g) ==
  With(Cardinality({k \in 1..Len(acc) : localeCompare(acc[k].dt, g.dt) <= 0}), LAMBDA c :
    SubSeq(acc, 1, c) \o <<g>> \o SubSeq(acc, c + 1, Len(acc)))

\* Array.prototype.sort with (a, b) => a.dt.localeCompare(b.dt): stable
sortByDt(list) ==
  LET sorted[n \in 0..Len(list)] ==
        IF n = 0 THEN <<>>
        ELSE With(sorted[n - 1], LAMBDA acc : insertByDt(acc, list[n]))
  IN sorted[Len(list)]

-----------------------------------------------------------------------------
(* parseBFVText *)

\* raws.map(mapRawToGame).filter(g => !!g) from raw i on: the games in row
\* order, the line indices of the rows that gave one, and the module-level
\* list as the calls of detectHomeAndSplit leave it
RECURSIVE mapRawsFrom(_, _, _)
mapRawsFrom(raws, i, acc) ==
  IF i > Len(raws) THEN acc
  ELSE With(mapRawToGame(raws[i], acc.prefixes), LAMBDA g :
         IF g = NoGame THEN mapRawsFrom(raws, i + 1, acc)
         ELSE With([items |-> acc.items \o g,
                    rows |-> Append(acc.rows, raws[i].lineIdx),
                    prefixes |-> prefixesAfterCall(acc.prefixes)],
                   LAMBDA next : mapRawsFrom(raws, i + 1, next)))

\* parseBFVText(txt) with the module-level list in the order `list`:
\* items is the returned list, mapped the records before the sort, rows[k]
\* the line index of the row that gave mapped[k]
parseBFVText(txt, list) ==
  With(normalizedLines(txt), LAMBDA lines :
    With(scanFrom(lines, 1, "", <<>>), LAMBDA raws :
      With(mapRawsFrom(raws, 1, [items |-> <<>>, rows |-> <<>>, prefixes |-> list]),
           LAMBDA mapped :
             [items |-> sortByDt(mapped.items),
              mapped |-> mapped.items,
              lines |-> lines,
              raws |-> raws,
              rows |-> mapped.rows,
              prefixes |-> mapped.prefixes])))

-----------------------------------------------------------------------------
(* Inputs *)

SAMPLE_BFV_TEXT ==
  "\nTSV Lonnerstadt\nAlle Vereinsspiele in der Übersicht\n\nHerren\n"
  \o "ME Kreisliga 21.09.2025 15:00 TSV Lonnerstadt SpVgg Reuth\n"
  \o "Lonnerstadt, Am Sonnenhügel, Platz 1\n"
  \o "ME Kreisliga 22.09.2025 10:00 SC Adelsdorf TSV Lonnerstadt\n"
  \o "Adelsdorf, Hauptplatz\n"
  \o "ME Gruppe 23.09.2025 (SG) TSV Lonnerstadt SPIELFREI\n"
  \o "ME Gruppe 24.09.2025 18:00 TSV Lonnerstadt (SG) SV Beispiel\n"
  \o "Frimmersdorf, Sportplatz\n"
  \o "ME Gruppe 25.09.2025 18:00 TSV Lonnerstadt (SG) Team Zwei\n"
  \o "Vestenbergsgreuth, Sportanlage\n"
  \o "\nFrauen\n"
  \o "ME Bezirksliga 26.09.2025 19:30 TSV Lonnerstadt Frauen SV Beispiel Frauen\n"
  \o "ASV Weisendorf, Kunstrasen\n"

\* The lines the pasted texts are made of
InputLines ==
  {"Herren",
   "ME Kreisliga 21.09.2025 15:00 TSV" \o NBSP \o "Lonnerstadt  SpVgg Reuth",
   "Frimmersdorf, Sportplatz",
   "ME Gruppe 23.09.2025 (SG) TSV Lonnerstadt SPIELFREI",
   "ME Gruppe 23.09.2025 spielfrei (SG) TSV Lonnerstadt",
   "ME Gruppe 23.09.2025 SPIELFREI",
   "FS Liga 23.09.2025 10:00 SV Reuth TSV Lonnerstadt 3 TSV Lonnerstadt 2",
   "PO Pokal ohne Datum"}

\* The texts of at most n lines
RECURSIVE TextsOf(_)
TextsOf(n) ==
  IF n = 0 THEN {""}
  ELSE With(TextsOf(n - 1), LAMBDA shorter :
         shorter \cup {t \o (IF t = "" THEN "" ELSE "\n") \o l : t \in shorter, l \in InputLines})

InputTexts == TextsOf(MaxLines) \cup {trim(SAMPLE_BFV_TEXT)}

\* The pieces and separators the pairings are made of
PairingPieces ==
  {"TSV Lonnerstadt", "TSV Lonnerstadt 2", "TSV Lonnerstadt 3", "(SG) TSV Lonnerstadt",
   "(7er)", "SC" \o NBSP \o "\tAdelsdorf", "reuth"}

PairingSeparators == {" ", ""}

\* The pairings of at most n pieces
RECURSIVE PairingsOf(_)
PairingsOf(n) ==
  IF n = 0 THEN {""}
  ELSE With(PairingsOf(n - 1), LAMBDA shorter :
         shorter \cup {p \o (IF p = "" THEN "" ELSE sep) \o w :
                         p \in shorter, sep \in PairingSeparators, w \in PairingPieces})

InputPairings == PairingsOf(MaxPieces)

-----------------------------------------------------------------------------
(* App *)

\* No scanning loop is followed step by step
NoScan == [pc |-> "idle"]

NoSplit == [called |-> FALSE, in |-> "", out |-> [homeTeam |-> "", awayTeam |-> "", isHome |-> FALSE]]

\* No PDF is chosen; a chosen PDF is <<t>> with the text t that it holds
NoFile == <<>>

NoSuggestion == [called |-> FALSE, in |-> "", out |-> NoField]

\* The state after the App is mounted and a text is pasted into the textarea
Init ==
  /\ rawText \in InputTexts
  /\ file = NoFile
  /\ homeOnly = TRUE
  /\ games = <<>>
  /\ extracting = <<>>
  /\ OUR_TEAM_PREFIXES = DeclaredPrefixes
  /\ parseLog = <<>>
  /\ pairing = ""
  /\ split = NoSplit
  /\ venueText = ""
  /\ suggested = NoSuggestion
  /\ scan = NoScan

\* The number of the next handleParse call, counted over the calls that
\* have completed or wait for extractPdfText
nextTicket ==
  1 + Max({0} \cup {parseLog[n].ticket : n \in DOMAIN parseLog}
              \cup {extracting[n].ticket : n \in DOMAIN extracting})

\* Faulty variant of parseAndSetGames: a record whose id was in the list
\* before keeps the field assigned there
parseAndMergeGames(text, ticket) ==
  \E r \in {parseBFVText(text, OUR_TEAM_PREFIXES)} :
    /\ games' = [k \in DOMAIN r.items |->
                  IF \E j \in DOMAIN games : games[j].id = r.items[k].id
                  THEN [r.items[k] EXCEPT !.assignedField =
                          games[CHOOSE j \in DOMAIN games : games[j].id = r.items[k].id].assignedField]
                  ELSE r.items[k]]
    /\ OUR_TEAM_PREFIXES' = r.prefixes
    /\ parseLog' = Append(parseLog, [txt |-> text,
                                     items |-> r.items,
                                     mapped |-> r.mapped,
                                     lines |-> r.lines,
                                     raws |-> r.raws,
                                     rows |-> r.rows,
                                     prefixesBefore |-> OUR_TEAM_PREFIXES,
                                     gamesBefore |-> games,
                                     ticket |-> ticket])

\* const items = parseBFVText(text); setGames(items); in the handleParse
\* call with the number `ticket`
parseAndSetGames(text, ticket) ==
  \E r \in {parseBFVText(text, OUR_TEAM_PREFIXES)} :
    /\ games' = r.items
    /\ OUR_TEAM_PREFIXES' = r.prefixes
    /\ parseLog' = Append(parseLog, [txt |-> text,
                                     items |-> r.items,
                                     mapped |-> r.mapped,
                                     lines |-> r.lines,
                                     raws |-> r.raws,
                                     rows |-> r.rows,
                                     prefixesBefore |-> OUR_TEAM_PREFIXES,
                                     gamesBefore |-> games,
                                     ticket |-> ticket])

\* handleParse up to its first await: an empty text without a file alerts and
\* returns, an empty text with a file waits for extractPdfText, any other
\* text is parsed at once
HandleParse ==
  /\ nextTicket <= MaxParses
  /\ \E text \in {trim(rawText)} :
       IF text # ""
       THEN parseAndSetGames(text, nextTicket) /\ UNCHANGED extracting
       ELSE IF file = NoFile
            THEN UNCHANGED <<games, OUR_TEAM_PREFIXES, extracting, parseLog>>
            ELSE /\ extracting' = Append(extracting, [text |-> file[1], ticket |-> nextTicket])
                 /\ UNCHANGED <<games, OUR_TEAM_PREFIXES, parseLog>>
  /\ UNCHANGED <<file, rawText, homeOnly, pairing, split, venueText, suggested, scan>>

Next == HandleParse

Spec == Init /\ [][Next]_vars

\* detectHomeAndSplit called on its own
SplitInit ==
  /\ rawText = ""
  /\ file = NoFile
  /\ homeOnly = TRUE
  /\ games = <<>>
  /\ extracting = <<>>
  /\ OUR_TEAM_PREFIXES = DeclaredPrefixes
  /\ parseLog = <<>>
  /\ pairing \in InputPairings
  /\ split = NoSplit
  /\ venueText = ""
  /\ suggested = NoSuggestion
  /\ scan = NoScan

CallDetectHomeAndSplit ==
  /\ split' = [called |-> TRUE, in |-> pairing,
               out |-> detectHomeAndSplit(pairing, OUR_TEAM_PREFIXES)]
  /\ OUR_TEAM_PREFIXES' = prefixesAfterCall(OUR_TEAM_PREFIXES)
  /\ UNCHANGED <<file, rawText, homeOnly, games, extracting, parseLog, pairing, venueText, suggested, scan>>

SplitNext == CallDetectHomeAndSplit

SplitSpec == SplitInit /\ [][SplitNext]_vars

-----------------------------------------------------------------------------
(* suggestFieldFromVenue called on its own *)

\* The pieces the venue texts are made of
VenuePieces ==
  {"Frimmersdorf", "Vestenbergsgreuth", "ASV Weisendorf", "Kunstrasen", "AM SONNENHÜGEL",
   "Platz 1", "Platz 2", "Platz 3", "Sportplatz"}

\* The venue texts of at most n pieces
RECURSIVE VenuesOf(_)
VenuesOf(n) ==
  IF n = 0 THEN {""}
  ELSE With(VenuesOf(n - 1), LAMBDA shorter :
         shorter \cup {t \o (IF t = "" THEN "" ELSE ", ") \o w : t \in shorter, w \in VenuePieces})

InputVenues == VenuesOf(MaxPieces)

VenueInit ==
  /\ rawText = ""
  /\ file = NoFile
  /\ homeOnly = TRUE
  /\ games = <<>>
  /\ extracting = <<>>
  /\ OUR_TEAM_PREFIXES = DeclaredPrefixes
  /\ parseLog = <<>>
  /\ pairing = ""
  /\ split = NoSplit
  /\ venueText \in InputVenues
  /\ suggested = NoSuggestion
  /\ scan = NoScan

CallSuggestFieldFromVenue ==
  /\ suggested' = [called |-> TRUE, in |-> venueText, out |-> suggestFieldFromVenue(venueText)]
  /\ UNCHANGED <<file, rawText, homeOnly, games, OUR_TEAM_PREFIXES, extracting, parseLog, pairing, split,
                 venueText, scan>>

VenueNext == CallSuggestFieldFromVenue

VenueSpec == VenueInit /\ [][VenueNext]_vars

-----------------------------------------------------------------------------
(* parseBFVText called on its own, as runParserTests calls it *)

\* The lines the match reports are made of
ReportLines ==
  {"Herren", "Frauen",
   "ME Kreisliga 21.09.2025 15:00 TSV Lonnerstadt SpVgg Reuth",
   "Am Sonnenhügel", "Platz 2", "Seite 1 von 3", "https://www.bfv.de"}

\* The reports of at most n lines
RECURSIVE ReportsOf(_)
ReportsOf(n) ==
  IF n = 0 THEN {""}
  ELSE With(ReportsOf(n - 1), LAMBDA shorter :
         shorter \cup {t \o (IF t = "" THEN "" ELSE "\n") \o l : t \in shorter, l \in ReportLines})

\* A pairing of more than 60 characters
LongPairing == "TSV Lonnerstadt SG Oberreichenbach-Unterreichenbach-Mittelreichenbach 1"

\* Rows that differ from each other in one part only
FixtureRows ==
  [long |-> "ME Liga 21.09.2025 15:00 " \o LongPairing,
   otherTail |-> "ME Liga 21.09.2025 15:00 " \o Slice(LongPairing, 0, 70) \o "2",
   otherTime |-> "ME Liga 21.09.2025 16:00 " \o LongPairing,
   otherDate |-> "ME Liga 22.09.2025 15:00 " \o LongPairing,
   otherLeague |-> "FS Pokal 21.09.2025 15:00 " \o LongPairing,
   otherSpacing |-> "ME Liga 21.09.2025 15:00 TSV" \o NBSP \o " Lonnerstadt" \o SliceFrom(LongPairing, 15)]

\* Texts of two rows
FixtureTexts ==
  {FixtureRows.long \o "\n" \o FixtureRows[other] :
     other \in {"otherTail", "otherTime", "otherDate", "otherLeague", "otherSpacing"}}

\* Texts without a row, rows with unusual dates and times, other line breaks
EdgeTexts ==
  {"", " \n\t ", SAMPLE_BFV_TEXT,
   "Herren\nFrimmersdorf, Sportplatz",
   "Herren  Ü32\nME Kreisliga 21.09.2025 15:00 TSV Lonnerstadt SpVgg Reuth\nAm  Sonnenhügel, Platz 2",
   "XX Liga 21.09.2025 15:00 TSV Lonnerstadt SV Reuth",
   "MEISTER 21.09.2025 15:00 TSV Lonnerstadt SV Reuth",
   "ME Liga 29.02.2024 15:00 TSV Lonnerstadt SV Reuth",
   "ME Liga 31.02.2025 15:00 TSV Lonnerstadt SV Reuth",
   "ME Liga 21.09.2025 25:99 TSV Lonnerstadt SV Reuth",
   "Herren\r\nME Liga 21.09.2025 15:00 TSV Lonnerstadt SV Reuth\r\nFrimmersdorf\r\n"}

ParseTexts == ReportsOf(MaxLines) \cup FixtureTexts \cup EdgeTexts

ParseInit ==
  /\ rawText \in ParseTexts
  /\ file = NoFile
  /\ homeOnly = TRUE
  /\ games = <<>>
  /\ extracting = <<>>
  /\ OUR_TEAM_PREFIXES = DeclaredPrefixes
  /\ parseLog = <<>>
  /\ pairing = ""
  /\ split = NoSplit
  /\ venueText = ""
  /\ suggested = NoSuggestion
  /\ scan = NoScan

\* parseBFVText(rawText) with the result dropped by the caller
CallParseBFVText ==
  /\ Len(parseLog) < MaxParses
  /\ \E r \in {parseBFVText(rawText, OUR_TEAM_PREFIXES)} :
       /\ OUR_TEAM_PREFIXES' = r.prefixes
       /\ parseLog' = Append(parseLog, [txt |-> rawText,
                                        items |-> r.items,
                                        mapped |-> r.mapped,
                                        lines |-> r.lines,
                                        raws |-> r.raws,
                                        rows |-> r.rows,
                                        prefixesBefore |-> OUR_TEAM_PREFIXES,
                                        gamesBefore |-> games,
                                        ticket |-> Len(parseLog) + 1])
  /\ UNCHANGED <<file, rawText, homeOnly, games, extracting, pairing, split, venueText, suggested, scan>>

ParseNext == CallParseBFVText

ParseSpec == ParseInit /\ [][ParseNext]_vars

-----------------------------------------------------------------------------
(* The App: text and file input, handleParse, field assignment *)

FIELDS == <<"A", "B", "C", "Frimmersdorf", "Vestenbergsgreuth", "ASV Weisendorf Kunstrasen">>

\* The values of the field select that the explored edits choose
FieldChoices == {"", FIELDS[2]}

\* The texts typed into the textarea; handleLoadSample puts a text there as well
AppTexts ==
  {"",
   "ME Kreisliga 21.09.2025 15:00 TSV Lonnerstadt SpVgg Reuth\nAm Sonnenhügel",
   "ME Kreisliga 21.09.2025 15:00 TSV Lonnerstadt SpVgg Reuth\nFrauen\n"
     \o "ME Kreisliga 21.09.2025 15:00 TSV Lonnerstadt SpVgg Reuth\n"
     \o "ME Kreisliga 22.09.2025 10:00 SC Adelsdorf TSV Lonnerstadt"}

\* The texts that the chosen PDFs hold
PdfTexts ==
  {"ME Kreisliga 21.09.2025 15:00 TSV Lonnerstadt SpVgg Reuth\nFrimmersdorf\n"}

AppInit ==
  /\ file = NoFile
  /\ rawText = ""
  /\ homeOnly = TRUE
  /\ games = <<>>
  /\ OUR_TEAM_PREFIXES = DeclaredPrefixes
  /\ extracting = <<>>
  /\ parseLog = <<>>
  /\ pairing = ""
  /\ split = NoSplit
  /\ venueText = ""
  /\ suggested = NoSuggestion
  /\ scan = NoScan

\* onChange of the file input
SetFile ==
  /\ \E f \in {NoFile} \cup {<<t>> : t \in PdfTexts} : file' = f
  /\ UNCHANGED <<rawText, homeOnly, games, OUR_TEAM_PREFIXES, extracting, parseLog, pairing, split,
                 venueText, suggested, scan>>

\* onChange of the textarea
SetRawText ==
  /\ \E t \in AppTexts : rawText' = t
  /\ UNCHANGED <<file, homeOnly, games, OUR_TEAM_PREFIXES, extracting, parseLog, pairing, split,
                 venueText, suggested, scan>>

\* The sequence without its i-th element
removeAt(seq, i) == SubSeq(seq, 1, i - 1) \o SubSeq(seq, i + 1, Len(seq))

\* extractPdfText returns for a waiting handleParse, which parses the text
ExtractPdfTextReturns ==
  /\ \E i \in DOMAIN extracting :
       /\ parseAndSetGames(extracting[i].text, extracting[i].ticket)
       /\ extracting' = removeAt(extracting, i)
  /\ UNCHANGED <<file, rawText, homeOnly, pairing, split, venueText, suggested, scan>>

\* extractPdfText throws for a waiting handleParse, which alerts
ExtractPdfTextThrows ==
  /\ \E i \in DOMAIN extracting : extracting' = removeAt(extracting, i)
  /\ UNCHANGED <<file, rawText, homeOnly, games, OUR_TEAM_PREFIXES, parseLog, pairing, split,
                 venueText, suggested, scan>>

\* onChange of the checkbox
SetHomeOnly ==
  /\ homeOnly' = ~homeOnly
  /\ UNCHANGED <<file, rawText, games, OUR_TEAM_PREFIXES, extracting, parseLog, pairing, split,
                 venueText, suggested, scan>>

\* The records of games that the table shows (parsedGames)
displayed == {k \in DOMAIN games : homeOnly => games[k].isHome}

\* onChange of the field select in the row of games[k]
AssignField ==
  /\ \E k \in displayed : \E value \in FieldChoices :
       games' = [x \in DOMAIN games |->
                   IF games[x].id = games[k].id
                   THEN [games[x] EXCEPT !.assignedField = IF value = "" THEN NoField ELSE value]
                   ELSE games[x]]
  /\ UNCHANGED <<file, rawText, homeOnly, OUR_TEAM_PREFIXES, extracting, parseLog, pairing, split,
                 venueText, suggested, scan>>

AppNext ==
  \/ SetFile
  \/ SetRawText
  \/ SetHomeOnly
  \/ HandleParse
  \/ ExtractPdfTextReturns
  \/ ExtractPdfTextThrows
  \/ AssignField

AppSpec == AppInit /\ [][AppNext]_vars

-----------------------------------------------------------------------------
(* The second parser of src/src/App.tsx: its line classes and scanning loop *)

\* /(Herren|Frauen|A-|B-|C-|D-|E-|F-|G-|Junioren|Juniorinnen|Ü32)/i, lower-cased
HeaderKeywords ==
  {"herren", "frauen", "a-", "b-", "c-", "d-", "e-", "f-", "g-", "junioren", "juniorinnen", "ü32"}

\* isHeaderSection of the second parser: the line holds one of the keywords
isHeaderSectionKeyword(l) ==
  With(toLowerCase(l), LAMBDA low : \E kw \in HeaderKeywords : includes(low, kw))

\* /^Kursiv|^Ergebnisse|^VEREINSSPIELPLAN|^Seite/i.test(l)
isBoilerplateSecond(l) ==
  With(toLowerCase(l), LAMBDA low :
    \E start \in {"kursiv", "ergebnisse", "vereinsspielplan", "seite"} : startsWith(low, start))

\* The venue loop of the second parser from line j (1-based)
RECURSIVE venueFromSecond(_, _, _)
venueFromSecond(lines, j, venue) ==
  IF j > Len(lines) \/ isRowStart(lines[j]) \/ isHeaderSectionKeyword(lines[j])
  THEN [venue |-> venue, next |-> j]
  ELSE IF isBoilerplateSecond(lines[j]) THEN venueFromSecond(lines, j + 1, venue)
       ELSE With(venue \o (IF venue # "" THEN " " ELSE "") \o lines[j], LAMBDA longer :
              venueFromSecond(lines, j + 1, longer))

\* The scanning loop of the second parser from line i (1-based): a row needs
\* the date/time pattern, there is no date-only fallback
RECURSIVE scanFromSecond(_, _, _, _)
scanFromSecond(lines, i, currentSection, raws) ==
  IF i > Len(lines) THEN raws
  ELSE IF isHeaderSectionKeyword(lines[i]) THEN scanFromSecond(lines, i + 1, lines[i], raws)
  ELSE IF ~isRowStart(lines[i]) THEN scanFromSecond(lines, i + 1, currentSection, raws)
  ELSE With(dateTimeMatch(skipWhitespace(SliceFrom(lines[i], 2))), LAMBDA row :
         IF ~row.ok THEN scanFromSecond(lines, i + 1, currentSection, raws)
         ELSE With(venueFromSecond(lines, i + 1, ""), LAMBDA v :
                With(Append(raws, gameRaw(lines, i, row, v.venue, currentSection)), LAMBDA pushed :
                  scanFromSecond(lines, v.next, currentSection, pushed))))

\* The second parser up to the rows that give a record: lines, raws, and the
\* raws that are not SPIELFREI, whose section and venue the records take over
parseBFVTextSecond(txt) ==
  With(normalizedLines(txt), LAMBDA lines :
    With(scanFromSecond(lines, 1, "", <<>>), LAMBDA raws :
      [lines |-> lines,
       raws |-> raws,
       kept |-> SelectSeq(raws, LAMBDA r : ~isSpielfrei(r.time))]))

\* The lines the texts given to both parsers are made of
ParserLines ==
  {"Herren",
   "ME Kreisliga 21.09.2025 15:00 TSV Lonnerstadt SpVgg Reuth",
   "ME A-Klasse 22.09.2025 15:00 SV Reuth TSV Lonnerstadt",
   "ME Gruppe 23.09.2025 TSV Lonnerstadt SV Reuth",
   "PO Pokal ohne Datum",
   "Sportplatz",
   "Seite 1 von 3"}

\* The texts of at most n of these lines
RECURSIVE ParserTextsOf(_)
ParserTextsOf(n) ==
  IF n = 0 THEN {""}
  ELSE With(ParserTextsOf(n - 1), LAMBDA shorter :
         shorter \cup {t \o (IF t = "" THEN "" ELSE "\n") \o l : t \in shorter, l \in ParserLines})

ParsersInit ==
  /\ file = NoFile
  /\ rawText \in ParserTextsOf(MaxLines)
  /\ homeOnly = TRUE
  /\ games = <<>>
  /\ OUR_TEAM_PREFIXES = DeclaredPrefixes
  /\ extracting = <<>>
  /\ parseLog = <<>>
  /\ pairing = ""
  /\ split = NoSplit
  /\ venueText = ""
  /\ suggested = NoSuggestion
  /\ scan = NoScan

\* parseBFVText of src/src/App copy.tsx on rawText, called once; the entry keeps
\* the lines, the raws and the raws that gave a record
CallFirstParser ==
  /\ Len(parseLog) < MaxParses
  /\ \A n \in DOMAIN parseLog : parseLog[n].parser # "first"
  /\ \E r \in {parseBFVText(rawText, OUR_TEAM_PREFIXES)} :
       /\ OUR_TEAM_PREFIXES' = r.prefixes
       /\ parseLog' = Append(parseLog,
            [parser |-> "first", txt |-> rawText, lines |-> r.lines, raws |-> r.raws,
             kept |-> SelectSeq(r.raws, LAMBDA g : g.lineIdx \in Range(r.rows))])
  /\ UNCHANGED <<file, rawText, homeOnly, games, extracting, pairing, split, venueText, suggested, scan>>

\* The second parser of src/src/App.tsx on rawText, called once
CallSecondParser ==
  /\ Len(parseLog) < MaxParses
  /\ \A n \in DOMAIN parseLog : parseLog[n].parser # "second"
  /\ \E r \in {parseBFVTextSecond(rawText)} :
       parseLog' = Append(parseLog,
         [parser |-> "second", txt |-> rawText, lines |-> r.lines, raws |-> r.raws,
          kept |-> r.kept])
  /\ UNCHANGED <<file, rawText, homeOnly, games, OUR_TEAM_PREFIXES, extracting, pairing, split,
                 venueText, suggested, scan>>

ParsersNext == CallFirstParser \/ CallSecondParser

ParsersSpec == ParsersInit /\ [][ParsersNext]_vars


-----------------------------------------------------------------------------
(* The scanning loop of parseBFVText, one step per loop iteration.  Line    *)
(* indexes are 1-based: scan.i and scan.j are the source's i + 1 and j + 1. *)
(* scan.used[k] lists what line k was used as.                              *)

ScanInit ==
  /\ file = NoFile
  /\ rawText \in ParserTextsOf(MaxLines)
  /\ homeOnly = TRUE
  /\ games = <<>>
  /\ OUR_TEAM_PREFIXES = DeclaredPrefixes
  /\ extracting = <<>>
  /\ parseLog = <<>>
  /\ pairing = ""
  /\ split = NoSplit
  /\ venueText = ""
  /\ suggested = NoSuggestion
  /\ \E lines \in {normalizedLines(rawText)} :
       scan = [pc |-> "for", lines |-> lines, i |-> 1, j |-> 1, currentSection |-> "",
               row |-> NoRow, venue |-> "", raws |-> <<>>,
               used |-> [k \in DOMAIN lines |-> <<>>]]

\* scan.used with line k used as role
usedAs(k, role) == [scan.used EXCEPT ![k] = Append(@, role)]

\* Faulty variant of indexAfterRow: i = j, then i++
indexAfterRowSkipping(j) == j + 1

\* The value of i at the next test of the for loop after a row was pushed
\* with the venue loop stopped at j: i = j - 1, then i++
indexAfterRow(j) == j

inFor == scan.pc = "for" /\ scan.i <= Len(scan.lines)

inVenue == scan.pc = "venue"

\* The venue loop goes on at line j
venueGoesOn ==
  /\ scan.j <= Len(scan.lines)
  /\ ~isRowStart(scan.lines[scan.j])
  /\ ~isHeaderSection(scan.lines[scan.j])

\* if (isHeaderSection(line)) { currentSection = line; continue; }
ReadHeader ==
  /\ inFor
  /\ isHeaderSection(scan.lines[scan.i])
  /\ scan' = [scan EXCEPT !.currentSection = scan.lines[scan.i],
                          !.i = scan.i + 1,
                          !.used = usedAs(scan.i, "header")]
  /\ UNCHANGED <<file, rawText, homeOnly, games, OUR_TEAM_PREFIXES, extracting, parseLog, pairing,
                 split, venueText, suggested>>

\* if (!isRowStart(line)) continue;
SkipLine ==
  /\ inFor
  /\ ~isHeaderSection(scan.lines[scan.i])
  /\ ~isRowStart(scan.lines[scan.i])
  /\ scan' = [scan EXCEPT !.i = scan.i + 1, !.used = usedAs(scan.i, "skipped")]
  /\ UNCHANGED <<file, rawText, homeOnly, games, OUR_TEAM_PREFIXES, extracting, parseLog, pairing,
                 split, venueText, suggested>>

\* A row-start line that neither pattern matches: continue
SkipRow ==
  /\ inFor
  /\ ~isHeaderSection(scan.lines[scan.i])
  /\ isRowStart(scan.lines[scan.i])
  /\ ~tokenizeRow(scan.lines[scan.i]).ok
  /\ scan' = [scan EXCEPT !.i = scan.i + 1, !.used = usedAs(scan.i, "skipped")]
  /\ UNCHANGED <<file, rawText, homeOnly, games, OUR_TEAM_PREFIXES, extracting, parseLog, pairing,
                 split, venueText, suggested>>

\* A row-start line that tokenizes: let venue = ""; let j = i + 1
StartRow ==
  /\ inFor
  /\ ~isHeaderSection(scan.lines[scan.i])
  /\ isRowStart(scan.lines[scan.i])
  /\ \E row \in {tokenizeRow(scan.lines[scan.i])} :
       /\ row.ok
       /\ scan' = [scan EXCEPT !.pc = "venue", !.row = row, !.venue = "", !.j = scan.i + 1,
                               !.used = usedAs(scan.i, "row")]
  /\ UNCHANGED <<file, rawText, homeOnly, games, OUR_TEAM_PREFIXES, extracting, parseLog, pairing,
                 split, venueText, suggested>>

\* A line of the skip-list inside the venue loop: j++; continue
SkipBoilerplate ==
  /\ inVenue
  /\ venueGoesOn
  /\ isBoilerplate(scan.lines[scan.j])
  /\ scan' = [scan EXCEPT !.j = scan.j + 1, !.used = usedAs(scan.j, "boilerplate")]
  /\ UNCHANGED <<file, rawText, homeOnly, games, OUR_TEAM_PREFIXES, extracting, parseLog, pairing,
                 split, venueText, suggested>>

\* venue += (venue ? " " : "") + lines[j]; j++
AppendVenue ==
  /\ inVenue
  /\ venueGoesOn
  /\ ~isBoilerplate(scan.lines[scan.j])
  /\ ~(isTitleShaped(scan.lines[scan.j]) /\ isHeaderSection(scan.lines[scan.j]))
  /\ scan' = [scan EXCEPT !.venue = scan.venue \o (IF scan.venue # "" THEN " " ELSE "")
                                               \o scan.lines[scan.j],
                          !.j = scan.j + 1,
                          !.used = usedAs(scan.j, "venue")]
  /\ UNCHANGED <<file, rawText, homeOnly, games, OUR_TEAM_PREFIXES, extracting, parseLog, pairing,
                 split, venueText, suggested>>

\* The venue loop has ended: raws.push({...}); i = j - 1; and the i++ of the for loop
PushRow ==
  /\ inVenue
  /\ \/ ~venueGoesOn
     \/ /\ venueGoesOn
        /\ ~isBoilerplate(scan.lines[scan.j])
        /\ isTitleShaped(scan.lines[scan.j]) /\ isHeaderSection(scan.lines[scan.j])
  /\ scan' = [scan EXCEPT !.pc = "for",
                          !.raws = Append(scan.raws, gameRaw(scan.lines, scan.i, scan.row,
                                                             scan.venue, scan.currentSection)),
                          !.i = indexAfterRow(scan.j)]
  /\ UNCHANGED <<file, rawText, homeOnly, games, OUR_TEAM_PREFIXES, extracting, parseLog, pairing,
                 split, venueText, suggested>>

\* i < lines.length fails: the loop is left
FinishScan ==
  /\ scan.pc = "for"
  /\ scan.i > Len(scan.lines)
  /\ scan' = [scan EXCEPT !.pc = "done"]
  /\ UNCHANGED <<file, rawText, homeOnly, games, OUR_TEAM_PREFIXES, extracting, parseLog, pairing,
                 split, venueText, suggested>>

ScanNext ==
  \/ ReadHeader
  \/ SkipLine
  \/ SkipRow
  \/ StartRow
  \/ SkipBoilerplate
  \/ AppendVenue
  \/ PushRow
  \/ FinishScan

\* The loop is synchronous code: while a step is possible, a step is taken
ScanSpec == ScanInit /\ [][ScanNext]_vars /\ WF_vars(ScanNext)
-----------------------------------------------------------------------------
(* Properties of the parser (specification Spec) *)

\* The configured name variants
Variants == Range(DeclaredPrefixes)

\* The token that follows the first date of a row-start line, "" without a date
tokenAfterDate(line) ==
  LET rest == skipWhitespace(SliceFrom(line, 2))
      starts == dateOnlyStarts(rest)
      tail == skipWhitespace(SliceFrom(rest, Min(starts) + 11))
      ends == {i \in 0..Len(tail) : i = Len(tail) \/ CharAt(tail, i) \in WhiteSpace}
  IN IF starts = {} THEN "" ELSE Slice(tail, 0, Min(ends))

\* The line matches '<label> <DD.MM.YYYY> <HH:MM or SPIELFREI> <pairing>'
matchesFullPattern(line) ==
  isRowStart(line) /\ dateTimeStarts(skipWhitespace(SliceFrom(line, 2))) # {}

\* The line matches the full pattern and its kickoff is HH:MM
matchesFullPatternWithTime(line) ==
  /\ matchesFullPattern(line)
  /\ LET rest == skipWhitespace(SliceFrom(line, 2))
     IN timeAt(rest, Min(dateTimeStarts(rest)) + 12)

\* The row at line i (1-based) of parse e gave a record
gaveRecord(e, i) == (i - 1) \in Range(e.rows)

\* C1: in every parse, a row line whose token directly after the date is
\* SPIELFREI in any letter case gives no record, and no returned record has
\* a time equal to SPIELFREI ignoring case.
C1_SpielfreiGivesNoRecord ==
  \A n \in DOMAIN parseLog :
    /\ \A i \in DOMAIN parseLog[n].lines :
         (/\ isRowStart(parseLog[n].lines[i])
          /\ toUpperCase(tokenAfterDate(parseLog[n].lines[i])) = "SPIELFREI")
         => ~gaveRecord(parseLog[n], i)
    /\ \A k \in DOMAIN parseLog[n].items :
         toUpperCase(parseLog[n].items[k].time) # "SPIELFREI"

\* C2: in every parse, a row-start line that does not match the full pattern
\* gives no record, the number of returned records is the number of lines
\* that match the full pattern with an HH:MM kickoff, and the built-in sample
\* text gives 5 records.
C2_OnlyFullPatternRowsGiveRecords ==
  \A n \in DOMAIN parseLog :
    /\ \A i \in DOMAIN parseLog[n].lines :
         (isRowStart(parseLog[n].lines[i]) /\ ~matchesFullPattern(parseLog[n].lines[i]))
         => ~gaveRecord(parseLog[n], i)
    /\ Len(parseLog[n].items)
         = Cardinality({i \in DOMAIN parseLog[n].lines :
                          matchesFullPatternWithTime(parseLog[n].lines[i])})
    /\ parseLog[n].txt = trim(SAMPLE_BFV_TEXT) => Len(parseLog[n].items) = 5

\* The UTF-16 code unit of a character of a dt string
codeUnit(c) ==
  IF c = "-" THEN 45
  ELSE IF c \in Digits THEN 48 + IndexOf("0123456789", c)
  ELSE IF c = ":" THEN 58
  ELSE 84

\* a is lexicographically less than or equal to b, by code units
lexLeq(a, b) ==
  LET differ == {i \in 1..Min({Len(a), Len(b)}) : SubSeq(a, i, i) # SubSeq(b, i, i)}
  IN IF differ = {} THEN Len(a) <= Len(b)
     ELSE codeUnit(SubSeq(a, Min(differ), Min(differ)))
          < codeUnit(SubSeq(b, Min(differ), Min(differ)))

\* C3: in every returned list the dt of each record is lexicographically less
\* than or equal to the dt of the next record.
C3_DtNonDecreasing ==
  \A n \in DOMAIN parseLog :
    \A k \in 1..(Len(parseLog[n].items) - 1) :
      lexLeq(parseLog[n].items[k].dt, parseLog[n].items[k + 1].dt)

\* C4: two parses of the same text return identical record lists, also when
\* the first one starts with the prefix list as declared and the second one
\* with the list as detectHomeAndSplit sorted it.
C4_ReparseIsIdempotent ==
  \A m, n \in DOMAIN parseLog :
    parseLog[m].txt = parseLog[n].txt => parseLog[m].items = parseLog[n].items

\* C4 happens: a text with records was parsed with the list as declared and
\* again with the list reordered
C4_Witness ==
  /\ Len(parseLog) >= 2
  /\ parseLog[1].txt = parseLog[2].txt
  /\ parseLog[1].prefixesBefore = DeclaredPrefixes
  /\ parseLog[2].prefixesBefore # DeclaredPrefixes
  /\ parseLog[1].items # <<>>
  /\ parseLog[2].items = parseLog[1].items

\* C6: every returned record with isHome = false has suggestedField = null.
C6_AwayHasNoSuggestedField ==
  \A n \in DOMAIN parseLog :
    \A k \in DOMAIN parseLog[n].items :
      ~parseLog[n].items[k].isHome => parseLog[n].items[k].suggestedField = NoField

\* C6 happens: an away record whose venue text names a known field
C6_Witness ==
  \E n \in DOMAIN parseLog :
    \E k \in DOMAIN parseLog[n].items :
      /\ ~parseLog[n].items[k].isHome
      /\ includes(parseLog[n].items[k].venue, "Frimmersdorf")
      /\ parseLog[n].items[k].suggestedField = NoField

\* C10: every returned record has a non-empty homeTeam.
C10_HomeTeamNeverEmpty ==
  \A n \in DOMAIN parseLog :
    \A k \in DOMAIN parseLog[n].items : parseLog[n].items[k].homeTeam # ""

\* C10 happens: a parse returned a home record and an away record, the away
\* one read from a row without kickoff time
C10_Witness ==
  \E n \in DOMAIN parseLog :
    \E j, k \in DOMAIN parseLog[n].items :
      /\ parseLog[n].items[j].isHome /\ parseLog[n].items[j].homeTeam # ""
      /\ ~parseLog[n].items[k].isHome /\ parseLog[n].items[k].homeTeam # ""
      /\ parseLog[n].items[k].time = ""

-----------------------------------------------------------------------------
(* Properties of the splitter (specification SplitSpec) *)

\* The whitespace-normalized pairing of the last call
splitText == normalizeSpaces(split.in)

\* The variants the text equals or starts with, a space following
leftMatching(text) == {v \in Variants : text = v \/ startsWith(text, v \o " ")}

\* The variants that occur in the text behind a space
rightMatching(text) == {v \in Variants : includes(text, " " \o v)}

\* v1 is a proper prefix of v2
properPrefix(v1, v2) == v1 # v2 /\ startsWith(v2, v1)

\* C5 as stated: for any two variants v1, v2 with v1 a proper prefix of v2,
\* a pairing that equals v2 or starts with v2 and a space gets homeTeam = v2.
C5_LongerOfAnyPair ==
  split.called =>
    \A v1, v2 \in Variants :
      (properPrefix(v1, v2) /\ v2 \in leftMatching(splitText)) => split.out.homeTeam = v2

\* C5, amended: when some variant left-matches the pairing, homeTeam is the
\* longest variant that left-matches it; so for variants v1, v2 with v1 a
\* proper prefix of v2 and v2 left-matching, homeTeam is never v1.
C5_LongestLeftMatch ==
  (split.called /\ leftMatching(splitText) # {}) =>
    /\ split.out.homeTeam \in leftMatching(splitText)
    /\ \A w \in leftMatching(splitText) : Len(w) <= Len(split.out.homeTeam)
    /\ \A v1, v2 \in Variants :
         (properPrefix(v1, v2) /\ v2 \in leftMatching(splitText)) => split.out.homeTeam # v1

\* C5 happens: two variants, one a proper prefix of the other, left-match the
\* pairing and homeTeam is the longer one
C5_Witness ==
  /\ split.called
  /\ \E v1, v2 \in leftMatching(splitText) :
       properPrefix(v1, v2) /\ split.out.homeTeam = v2

\* C7: isHome is true exactly when the normalized pairing equals a variant
\* or starts with a variant and a space; then homeTeam is such a variant and
\* awayTeam is what remains of the pairing behind it, possibly nothing.
C7_HomeIffLeftMatch ==
  split.called =>
    /\ split.out.isHome <=> leftMatching(splitText) # {}
    /\ split.out.isHome =>
         /\ split.out.homeTeam \in leftMatching(splitText)
         /\ splitText = split.out.homeTeam
                        \o (IF split.out.awayTeam = "" THEN "" ELSE " " \o split.out.awayTeam)

\* C7 happens: a pairing that starts with a variant, with an opponent behind it
C7_Witness ==
  /\ split.called
  /\ split.out.isHome
  /\ split.out.awayTeam # ""
  /\ splitText = split.out.homeTeam \o " " \o split.out.awayTeam

\* C8: when no variant left-matches the pairing and some variant occurs in
\* it behind a space, at the end or embedded, then isHome is false, awayTeam
\* is such a variant and homeTeam is the text that precedes an occurrence of
\* it; 'SC Adelsdorf TSV Lonnerstadt' gives 'SC Adelsdorf' and
\* 'TSV Lonnerstadt'.
C8_RightMatchIsAway ==
  (split.called /\ leftMatching(splitText) = {} /\ rightMatching(splitText) # {}) =>
    /\ ~split.out.isHome
    /\ split.out.awayTeam \in rightMatching(splitText)
    /\ \E idx \in Occurrences(splitText, split.out.awayTeam) :
         split.out.homeTeam = trim(Slice(splitText, 0, idx))
    /\ splitText = "SC Adelsdorf TSV Lonnerstadt" =>
         split.out.homeTeam = "SC Adelsdorf" /\ split.out.awayTeam = "TSV Lonnerstadt"

\* C8 happens: the pairing 'SC Adelsdorf TSV Lonnerstadt' was split
C8_Witness ==
  /\ split.called
  /\ splitText = "SC Adelsdorf TSV Lonnerstadt"
  /\ split.out = [homeTeam |-> "SC Adelsdorf", awayTeam |-> "TSV Lonnerstadt", isHome |-> FALSE]

\* C9: when no variant matches the pairing at the left, at the right or
\* embedded, homeTeam is the entire normalized pairing, awayTeam is empty and
\* isHome is false.
C9_NoMatchKeepsWholeText ==
  (split.called /\ leftMatching(splitText) = {} /\ rightMatching(splitText) = {}) =>
    split.out = [homeTeam |-> splitText, awayTeam |-> "", isHome |-> FALSE]

-----------------------------------------------------------------------------
(* Properties of the field suggester (specification VenueSpec) *)

\* Rule i of the ordered policy applies to the lower-cased venue v
ruleApplies(i, v) ==
  IF i = 1 THEN includes(v, "frimmersdorf")
  ELSE IF i = 2 THEN includes(v, "vestenbergsgreuth")
  ELSE IF i = 3 THEN includes(v, "weisendorf") /\ includes(v, "kunstrasen")
  ELSE IF i = 4 THEN includes(v, "am sonnenhügel") /\ includes(v, "platz 1")
  ELSE IF i = 5 THEN includes(v, "am sonnenhügel") /\ includes(v, "platz 2")
  ELSE IF i = 6 THEN includes(v, "am sonnenhügel") /\ includes(v, "platz 3")
  ELSE IF i = 7 THEN includes(v, "am sonnenhügel")
  ELSE TRUE

\* What rule i gives
ruleResult(i) ==
  IF i = 1 THEN "Frimmersdorf"
  ELSE IF i = 2 THEN "Vestenbergsgreuth"
  ELSE IF i = 3 THEN "ASV Weisendorf Kunstrasen"
  ELSE IF i = 4 THEN "A"
  ELSE IF i = 5 THEN "B"
  ELSE IF i = 6 THEN "C"
  ELSE IF i = 7 THEN "A"
  ELSE NoField

\* The rules that apply to the lower-cased venue v
rulesApplying(v) == {i \in 1..8 : ruleApplies(i, v)}

\* C11: suggestFieldFromVenue returns the result of the first rule of the
\* ordered list that applies to the lower-cased venue: frimmersdorf,
\* vestenbergsgreuth, weisendorf with kunstrasen, am sonnenhügel with pitch
\* 1, 2, 3 or none (A, B, C, A), otherwise null.
C11_FirstRuleWins ==
  suggested.called =>
    suggested.out = ruleResult(Min(rulesApplying(toLowerCase(suggested.in))))

\* C11 happens: a venue to which the first and the home-ground rule apply
C11_Witness ==
  /\ suggested.called
  /\ {1, 5} \subseteq rulesApplying(toLowerCase(suggested.in))
  /\ suggested.out = "Frimmersdorf"

-----------------------------------------------------------------------------
(* Properties of the parser called on its own (specification ParseSpec) *)

\* The line (1-based) of parse e that gave its k-th record
rowLine(e, k) == e.rows[k] + 1

\* The section-header lines of parse e before line i
headersBefore(e, i) == {h \in 1..(i - 1) : isHeaderSection(e.lines[h])}

\* C12: the section of every record is the most recent section-header line
\* before the record's row line, or "" if there is none; other lines never
\* change the current section.
C12_SectionIsLastHeader ==
  \A n \in DOMAIN parseLog :
    \A k \in DOMAIN parseLog[n].mapped :
      LET e == parseLog[n]
          hs == headersBefore(e, rowLine(e, k))
      IN e.mapped[k].section = (IF hs = {} THEN "" ELSE e.lines[Max(hs)])

\* C12 happens: a record below two different headers with another line
\* between the last header and the row, and a record above every header
C12_Witness ==
  \E n \in DOMAIN parseLog :
    LET e == parseLog[n]
    IN /\ \E k \in DOMAIN e.mapped :
            /\ e.mapped[k].section = "Frauen"
            /\ \E h \in headersBefore(e, rowLine(e, k)) : e.lines[h] = "Herren"
       /\ \E k \in DOMAIN e.mapped :
            /\ e.mapped[k].section = "Herren"
            /\ Max(headersBefore(e, rowLine(e, k))) < rowLine(e, k) - 1

\* The first row-start or section-header line of parse e after line i, or
\* the line after the last
nextBoundary(e, i) ==
  Min({j \in (i + 1)..Len(e.lines) : isRowStart(e.lines[j]) \/ isHeaderSection(e.lines[j])}
      \cup {Len(e.lines) + 1})

\* The lines of S joined with single spaces in input order
RECURSIVE joinLines(_, _)
joinLines(lines, S) ==
  IF S = {} THEN ""
  ELSE With(joinLines(lines, S \ {Max(S)}), LAMBDA front :
         front \o (IF front = "" THEN "" ELSE " ") \o lines[Max(S)])

\* The lines between line i of parse e and the next boundary that are not
\* on the skip-list
venueLines(e, i) ==
  {j \in (i + 1)..(nextBoundary(e, i) - 1) : ~isBoilerplate(e.lines[j])}

\* C13: the venue of a record is the space-joined sequence of the lines
\* between its row line and the next row-start or section-header line, the
\* lines on the boilerplate skip-list left out; a boilerplate line does not
\* end the venue and no later line gets into it.
C13_VenueIsFollowingLines ==
  \A n \in DOMAIN parseLog :
    \A k \in DOMAIN parseLog[n].mapped :
      parseLog[n].mapped[k].venue
        = joinLines(parseLog[n].lines, venueLines(parseLog[n], rowLine(parseLog[n], k)))

\* C13 happens: a venue with a line that stands behind a boilerplate line
C13_Witness ==
  \E n \in DOMAIN parseLog :
    \E k \in DOMAIN parseLog[n].mapped :
      LET e == parseLog[n]
          i == rowLine(e, k)
      IN /\ Cardinality(venueLines(e, i)) >= 1
         /\ \E j \in (i + 1)..Max(venueLines(e, i)) : isBoilerplate(e.lines[j])
         /\ e.mapped[k].venue # ""

\* The line starts with one of the row labels and white space
hasRowLabel(l) ==
  \E label \in {"FS", "ME", "PO"} : \E w \in WhiteSpace : startsWith(l, label \o w)

\* C14: parseBFVText returns a list for every input string, and the empty
\* list for the empty string and for every text without a row-start line.
C14_TotalAndEmptyWithoutRows ==
  \A n \in DOMAIN parseLog :
    /\ DOMAIN parseLog[n].items = 1..Len(parseLog[n].items)
    /\ parseLog[n].txt = "" => parseLog[n].items = <<>>
    /\ (\A i \in DOMAIN parseLog[n].lines : ~hasRowLabel(parseLog[n].lines[i]))
       => parseLog[n].items = <<>>

\* C14 happens: the empty text was parsed, or a text with lines that carry
\* a date and a time but no row label
C14_Witness ==
  \E n \in DOMAIN parseLog :
    /\ parseLog[n].items = <<>>
    /\ \/ parseLog[n].txt = ""
       \/ /\ parseLog[n].lines # <<>>
          /\ \A i \in DOMAIN parseLog[n].lines :
               /\ ~hasRowLabel(parseLog[n].lines[i])
               /\ dateTimeStarts(parseLog[n].lines[i]) # {}

\* The GameRaw of parse e that gave its k-th record
rawOf(e, k) == CHOOSE r \in Range(e.raws) : r.lineIdx = e.rows[k]

\* Two records are different fixtures
distinctFixtures(a, b) ==
  \/ a.homeTeam # b.homeTeam
  \/ a.awayTeam # b.awayTeam
  \/ a.section # b.section
  \/ a.competition # b.competition
  \/ a.venue # b.venue

\* C15: within the list of one parse, records that come from distinct
\* fixtures (different teams, section, competition or venue) have distinct
\* ids.
C15_DistinctFixturesDistinctIds ==
  \A n \in DOMAIN parseLog :
    \A k1, k2 \in DOMAIN parseLog[n].items :
      (k1 # k2 /\ distinctFixtures(parseLog[n].items[k1], parseLog[n].items[k2]))
      => parseLog[n].items[k1].id # parseLog[n].items[k2].id

\* The string is HH:MM with an hour of 00-23 and a minute of 00-59
isClockTime(t) ==
  /\ Len(t) = 5
  /\ SubSeq(t, 3, 3) = ":"
  /\ \A i \in {1, 2, 4, 5} : SubSeq(t, i, i) \in Digits
  /\ Number(SubSeq(t, 1, 2)) \in 0..23
  /\ Number(SubSeq(t, 4, 5)) \in 0..59

\* C16: every returned record has a time of the form HH:MM with an hour of
\* 00-23 and a minute of 00-59, never an empty string or another shape.
C16_TimeIsClockTime ==
  \A n \in DOMAIN parseLog :
    \A k \in DOMAIN parseLog[n].items : isClockTime(parseLog[n].items[k].time)

\* DD.MM.YYYY written as YYYY-MM-DD with the same numbers
rewriteDate(dmy) == SubSeq(dmy, 7, 10) \o "-" \o SubSeq(dmy, 4, 5) \o "-" \o SubSeq(dmy, 1, 2)

\* C17: the date of every record is the DD.MM.YYYY date of its row written
\* as YYYY-MM-DD with the same day, month and year, for every date string
\* the row pattern accepts.
C17_DateKeepsItsNumbers ==
  \A n \in DOMAIN parseLog :
    \A k \in DOMAIN parseLog[n].mapped :
      parseLog[n].mapped[k].date = rewriteDate(rawOf(parseLog[n], k).date)

\* C18: every returned record has assignedField equal to its suggestedField.
C18_AssignedIsSuggested ==
  \A n \in DOMAIN parseLog :
    \A k \in DOMAIN parseLog[n].items :
      parseLog[n].items[k].assignedField = parseLog[n].items[k].suggestedField

\* C18 happens: a returned record with a suggested field
C18_Witness ==
  \E n \in DOMAIN parseLog :
    \E k \in DOMAIN parseLog[n].items :
      /\ parseLog[n].items[k].suggestedField = "B"
      /\ parseLog[n].items[k].assignedField = "B"

\* What the id of a row may depend on: the raw date, the time and the first
\* 60 characters of the pairing with its white space normalized
idKey(gr) == <<gr.date, gr.time, Slice(normalizeSpaces(gr.pairing), 0, 60)>>

\* C20: two rows of a parse get the same id if and only if they agree on the
\* raw date, the time and the first 60 characters of the normalized pairing,
\* whatever their section, competition, venue and pairing beyond character 60.
C20_IdDependsOnKeyOnly ==
  \A n \in DOMAIN parseLog :
    \A k1, k2 \in DOMAIN parseLog[n].mapped :
      (parseLog[n].mapped[k1].id = parseLog[n].mapped[k2].id)
        <=> (idKey(rawOf(parseLog[n], k1)) = idKey(rawOf(parseLog[n], k2)))

\* C20 happens: two rows with the same id whose pairings differ behind
\* character 60
C20_Witness ==
  \E n \in DOMAIN parseLog :
    \E k1, k2 \in DOMAIN parseLog[n].mapped :
      /\ parseLog[n].mapped[k1].id = parseLog[n].mapped[k2].id
      /\ normalizeSpaces(rawOf(parseLog[n], k1).pairing)
           # normalizeSpaces(rawOf(parseLog[n], k2).pairing)

\* The records of the list with the sort key dt, in the order of the list
withDt(list, dt) == SelectSeq(list, LAMBDA g : g.dt = dt)

\* C23: records with equal sort key dt stand in the returned list in the
\* order in which their row lines stand in the input text.
C23_SortIsStable ==
  \A n \in DOMAIN parseLog :
    \A k \in DOMAIN parseLog[n].mapped :
      withDt(parseLog[n].items, parseLog[n].mapped[k].dt)
        = withDt(parseLog[n].mapped, parseLog[n].mapped[k].dt)

\* C23 happens: two different records with the same dt were returned
C23_Witness ==
  \E n \in DOMAIN parseLog :
    \E k1, k2 \in DOMAIN parseLog[n].items :
      /\ k1 < k2
      /\ parseLog[n].items[k1].dt = parseLog[n].items[k2].dt
      /\ parseLog[n].items[k1] # parseLog[n].items[k2]

\* The characters from..to of s (1-based) without every space that follows a
\* space
RECURSIVE singleSpaces(_, _, _)
singleSpaces(s, from, to) ==
  IF from > to THEN ""
  ELSE IF from = to
       THEN (IF from > 1 /\ SubSeq(s, from - 1, from) = "  "
             THEN "" ELSE SubSeq(s, from, from))
       ELSE singleSpaces(s, from, (from + to) \div 2)
            \o singleSpaces(s, (from + to) \div 2 + 1, to)

\* The line is not empty, holds no non-breaking space, has no white space at
\* its ends and no two white space characters in a row
isNormalLine(l) ==
  /\ l # ""
  /\ ~includes(l, NBSP)
  /\ CharAt(l, 0) \notin WhiteSpace
  /\ CharAt(l, Len(l) - 1) \notin WhiteSpace
  /\ \A i \in 1..(Len(l) - 1) :
       ~(SubSeq(l, i, i) \in WhiteSpace /\ SubSeq(l, i + 1, i + 1) \in WhiteSpace)

\* C25: every line that is classified and tokenized is not empty, holds no
\* non-breaking space, no white space at its ends and no run of white space,
\* and the text with every run of spaces replaced by one space gives the
\* same records.
C25_RunsOfSpacesDoNotMatter ==
  \A n \in DOMAIN parseLog :
    /\ \A i \in DOMAIN parseLog[n].lines : isNormalLine(parseLog[n].lines[i])
    /\ parseLog[n].items
         = parseBFVText(singleSpaces(parseLog[n].txt, 1, Len(parseLog[n].txt)),
                        parseLog[n].prefixesBefore).items

-----------------------------------------------------------------------------
(* Properties of the App (specification AppSpec) *)

\* C19: when a handleParse completes successfully, the games list is the
\* result of parseBFVText on the parsed text and nothing else: no record and
\* no assigned field of the list held before survives, whatever parses and
\* edits came before.
C19_ParseReplacesGames ==
  [][Len(parseLog') > Len(parseLog)
     => games' = parseBFVText(parseLog'[Len(parseLog')].txt, DeclaredPrefixes).items]_vars

\* C19 happens: a parse has just completed on a list that held an edited
\* record with an id that the new list has as well
C19_Witness ==
  /\ parseLog # <<>>
  /\ games = parseLog[Len(parseLog)].items
  /\ \E j \in DOMAIN parseLog[Len(parseLog)].gamesBefore :
       LET old == parseLog[Len(parseLog)].gamesBefore[j]
       IN /\ old.assignedField # old.suggestedField
          /\ \E k \in DOMAIN games : games[k].id = old.id

\* C21: in every state of the App, every record of games with isHome = FALSE
\* has no assigned field.
C21_AwayNeverAssigned ==
  \A k \in DOMAIN games : ~games[k].isHome => games[k].assignedField = NoField

\* C22: selecting a field in the row of one record changes the assignedField
\* of exactly that record and nothing else in games.
C22_EditChangesOneRecord ==
  [][(parseLog' = parseLog /\ games' # games)
     => /\ DOMAIN games' = DOMAIN games
        /\ Cardinality({k \in DOMAIN games : games'[k] # games[k]}) = 1
        /\ \A k \in DOMAIN games :
             games'[k] = [games[k] EXCEPT !.assignedField = games'[k].assignedField]]_vars

\* The list as the parser returned it: every record with its suggested field
withoutEdits(list) ==
  [k \in DOMAIN list |-> [list[k] EXCEPT !.assignedField = list[k].suggestedField]]

\* The completed handleParse call that was started last
lastStarted ==
  CHOOSE n \in DOMAIN parseLog : \A m \in DOMAIN parseLog : parseLog[m].ticket <= parseLog[n].ticket

\* C30: once no handleParse call waits for extractPdfText any more, the
\* games list holds the records of the call that was started last, whatever
\* the order in which the calls completed.
C30_LastStartedWins ==
  (extracting = <<>> /\ parseLog # <<>>)
  => withoutEdits(games) = withoutEdits(parseLog[lastStarted].items)

-----------------------------------------------------------------------------
(* Properties of the two parsers side by side (specification ParsersSpec) *)

\* The line is a section header under the policy of the parser of entry e
isHeaderIn(e, l) ==
  IF e.parser = "first" THEN isHeaderSection(l) ELSE isHeaderSectionKeyword(l)

\* C24: under both header policies no line is a section header and a row
\* start at once: a line that starts with FS, ME or PO and white space is
\* never taken as a section header, so it is never the section of a record.
C24_RowStartNeverHeader ==
  \A n \in DOMAIN parseLog :
    /\ \A i \in DOMAIN parseLog[n].lines :
         hasRowLabel(parseLog[n].lines[i]) => ~isHeaderIn(parseLog[n], parseLog[n].lines[i])
    /\ \A k \in DOMAIN parseLog[n].kept : ~hasRowLabel(parseLog[n].kept[k].section)


\* The first row-start line of parse e after line i, or the line after the last
nextRowStart(e, i) ==
  Min({j \in (i + 1)..Len(e.lines) : isRowStart(e.lines[j])} \cup {Len(e.lines) + 1})

\* The row-start lines of parse e that gave no row
discardedRows(e) ==
  {d \in DOMAIN e.lines : isRowStart(e.lines[d]) /\ \A k \in DOMAIN e.raws : e.raws[k].lineIdx # d - 1}

\* The lines that follow the discarded row-start line d up to the next row-start line
continuationOf(e, d) == (d + 1)..(nextRowStart(e, d) - 1)

\* The lines of parse e that belong to a discarded row-start line: the line and
\* its continuation lines
discardedLines(e) == UNION {{d} \cup continuationOf(e, d) : d \in discardedRows(e)}

\* C27: in both parsers the venue of every row is the space-joined sequence of
\* some lines behind its row line none of which is a discarded row-start line
\* or a continuation line of one: the lines that follow a row-start line
\* discarded as malformed are added to no venue, in particular not to the
\* venue of the last row parsed before it.
C27_DiscardedRowKeepsItsLines ==
  \A n \in DOMAIN parseLog :
    \A k \in DOMAIN parseLog[n].raws :
      LET e == parseLog[n]
          p == e.raws[k].lineIdx + 1
      IN \E S \in SUBSET ((p + 1)..Len(e.lines)) :
           /\ e.raws[k].venue = joinLines(e.lines, S)
           /\ S \cap discardedLines(e) = {}

\* C27 happens: both parsers read a text in which a parsed row is directly
\* followed by a discarded row-start line and a continuation line of it
C27_Witness ==
  \A name \in {"first", "second"} :
    \E n \in DOMAIN parseLog :
      LET e == parseLog[n]
      IN /\ e.parser = name
         /\ \E k \in DOMAIN e.raws :
              /\ e.raws[k].lineIdx + 2 \in discardedRows(e)
              /\ e.raws[k].venue = ""
              /\ \E c \in continuationOf(e, e.raws[k].lineIdx + 2) :
                   ~isBoilerplate(e.lines[c]) /\ ~isHeaderSection(e.lines[c])

-----------------------------------------------------------------------------
(* The split as a partition of the pairing (specification SplitSpec) *)

\* homeTeam and awayTeam joined by one space, homeTeam alone when awayTeam is empty
joined(out) == out.homeTeam \o (IF out.awayTeam = "" THEN "" ELSE " " \o out.awayTeam)

\* C26: for every pairing, homeTeam and awayTeam joined by a single space
\* (homeTeam alone when awayTeam is empty) give back the whitespace-normalized
\* pairing: the split drops and duplicates nothing, whether the match is at
\* the left, at the right or embedded, or there is none.
C26_SplitLosesNothing ==
  split.called => joined(split.out) = splitText

\* How often x stands in the list
occurrencesIn(list, x) == Cardinality({i \in DOMAIN list : list[i] = x})

\* C29: after any number of calls of detectHomeAndSplit the module-level list
\* holds exactly the nine declared variants, each once; from the first call
\* on it is ordered by non-increasing length, so the variant the
\* right/embedded phase returns is a longest of those that occur in the
\* pairing behind a space.
C29_ListKeepsVariantsSorted ==
  /\ Len(OUR_TEAM_PREFIXES) = 9
  /\ \A i \in DOMAIN DeclaredPrefixes :
       occurrencesIn(OUR_TEAM_PREFIXES, DeclaredPrefixes[i]) = 1
  /\ split.called =>
       /\ \A i, j \in DOMAIN OUR_TEAM_PREFIXES :
            i < j => Len(OUR_TEAM_PREFIXES[i]) >= Len(OUR_TEAM_PREFIXES[j])
       /\ (~split.out.isHome /\ rightMatching(splitText) # {}) =>
            \A v \in rightMatching(splitText) : Len(v) <= Len(split.out.awayTeam)

\* C29 happens: after a call the list is no longer in declared order, and the
\* pairing held two variants of different length behind a space
C29_Witness ==
  /\ split.called
  /\ OUR_TEAM_PREFIXES # DeclaredPrefixes
  /\ ~split.out.isHome
  /\ \E v \in rightMatching(splitText) : Len(v) < Len(split.out.awayTeam)

-----------------------------------------------------------------------------
(* Properties of the scanning loop (specification ScanSpec) *)

\* The lines the loop has dealt with: those before i between two rows, those
\* before j inside the venue loop
linesDone == 1..((IF scan.pc = "venue" THEN scan.j ELSE scan.i) - 1)

\* What the loop must have used line k for, not a venue line
roleInFor(k) ==
  IF isHeaderSection(scan.lines[k]) THEN {"header"}
  ELSE IF isRowStart(scan.lines[k])
       THEN (IF tokenizeRow(scan.lines[k]).ok THEN {"row"} ELSE {"skipped"})
       ELSE {"skipped", "venue", "boilerplate"}

\* Every line is used at most once, the lines dealt with exactly once and the
\* others not at all; a header or row-start line is used by the for loop
usesLinesOnce ==
  \A k \in DOMAIN scan.lines :
    /\ Len(scan.used[k]) <= 1
    /\ Len(scan.used[k]) = 1 <=> k \in linesDone \/ (scan.pc = "venue" /\ k = scan.i)
    /\ Len(scan.used[k]) = 1 => scan.used[k][1] \in roleInFor(k)

\* The rows pushed stand for different lines, each used as a row line
rowsAreDistinctLines ==
  /\ \A a, b \in DOMAIN scan.raws : a < b => scan.raws[a].lineIdx < scan.raws[b].lineIdx
  /\ \A a \in DOMAIN scan.raws : scan.used[scan.raws[a].lineIdx + 1] = <<"row">>

\* When the loop is left every line was used and the rows are those of scanFrom
scanIsComplete ==
  scan.pc = "done" =>
    /\ \A k \in DOMAIN scan.lines : Len(scan.used[k]) = 1
    /\ scan.raws = scanFrom(scan.lines, 1, "", <<>>)

\* C28: the scanning loop terminates for every input; every line is used at
\* most once, as a section header, as the row line of one record or in the
\* venue of one record; the index advance after the venue loop neither skips
\* a row-start or section-header line nor comes back to a line already used.
C28_ScanTerminatesUsingLinesOnce ==
  /\ [](usesLinesOnce /\ rowsAreDistinctLines /\ scanIsComplete)
  /\ <>(scan.pc = "done")

\* C28 happens: the loop was left after two rows were pushed, the first with a
\* venue line, so that the advance led from the venue line to the next row
C28_Witness ==
  /\ scan.pc = "done"
  /\ Len(scan.raws) = 2
  /\ scan.raws[1].venue # ""
  /\ \E k \in DOMAIN scan.lines : scan.used[k] = <<"venue">>

====
